---------------------------- MODULE Spec2Model ----------------------------
(***************************************************************************)
(* Model of rss_generator.py: the scraper that turns the CSIS analysis     *)
(* listing page into rss.xml.                                              *)
(*                                                                         *)
(* Strings are sequences of tokens [k, v, w] (kind, value, digit width);   *)
(* the empty string is << >>.  An optional value (Python None, a missing   *)
(* element, a missing attribute) is a sequence of length 0 or 1.           *)
(***************************************************************************)
EXTENDS Integers, Sequences, FiniteSets, TLC

VARIABLES
    pc,           \* position of the driver / of the function under check
    now,          \* the UTC clock, in seconds after ClockBase
    page,         \* the listing page the site currently serves
    html,         \* main: the fetched markup (optional)
    articles,     \* parse_articles: the selected candidates
    results,      \* parse_articles: the extracted records, before dedup
    items,        \* the deduplicated records (parse_articles' return value)
    max_count,    \* the limit the dedup loop is run with
    pubdate_raw,  \* normalize_pubdate: its argument
    pubdate,      \* normalize_pubdate: its outcome
    file,         \* contents of OUTPUT_FILE
    fileBefore,   \* contents of OUTPUT_FILE when the current run started
    built,        \* whether build_rss was entered in the current run
    status,       \* exit status of the current run
    runs          \* number of runs started so far

vars == <<pc, now, page, html, articles, results, items, max_count,
          pubdate_raw, pubdate, file, fileBefore, built, status, runs>>

---------------------------------------------------------------------------
(* Program constants *)

BASE_URL == "https://www.csis.org"
START_URL == "https://www.csis.org/analysis"
MAX_ITEMS == 40

---------------------------------------------------------------------------
(* Bounds of the model *)

MaxCands == 3     \* longest page built from the core candidates
MaxLen == 4       \* longest record list given to the dedup loop
MaxCount == 3     \* largest max_count given to the dedup loop
MaxClock == 2     \* the clock runs over 0 .. MaxClock
MaxRuns == 2      \* number of runs of main that are followed
MaxBuild == 2     \* longest record list given to build_rss on its own

---------------------------------------------------------------------------
(* Strings *)

Tok(k, v, w) == [k |-> k, v |-> v, w |-> w]
SP == Tok(" ", 0, 0)
Word(n) == Tok("w", n, 0)
Amp == Tok("&", 0, 0)
Lit(c) == Tok(c, 0, 0)
Num(v, w) == Tok("num", v, w)

Some(x) == <<x>>
None == << >>

RECURSIVE lstrip(_)
lstrip(s) ==
    IF s # << >> /\ Head(s) = SP THEN lstrip(Tail(s)) ELSE s

RECURSIVE rstrip(_)
rstrip(s) ==
    IF s # << >> /\ s[Len(s)] = SP THEN rstrip(SubSeq(s, 1, Len(s) - 1)) ELSE s

\* str.strip()
strip(s) == rstrip(lstrip(s))

\* Tag.get_text(sep, strip=True) over the element's text nodes: every node is
\* stripped, empty ones are dropped, the rest are joined with sep.
RECURSIVE get_text(_, _)
get_text(sep, nodes) ==
    IF nodes = << >> THEN << >>
    ELSE LET h == strip(Head(nodes))
             t == get_text(sep, Tail(nodes))
         IN IF h = << >> THEN t
            ELSE IF t = << >> THEN h
            ELSE h \o sep \o t

---------------------------------------------------------------------------
(* URLs *)

\* An href value is [kind, host, path]: kind "path" is a relative reference,
\* "url" an absolute URL, "empty" the empty string, "bad" a string urlsplit
\* rejects (ValueError).
Href(kind, host, path) == [kind |-> kind, host |-> host, path |-> path]

urljoin_raises(href) == href.kind = "bad"

urljoin(base, href) ==
    IF href.kind = "url" THEN [host |-> href.host, path |-> href.path]
    ELSE [host |-> base, path |-> href.path]

---------------------------------------------------------------------------
(* parse_articles *)

\* soup.select("article.article-search-listing")
select_S1(doc) == SelectSeq(doc, LAMBDA a: a.listing)
\* soup.select(".views-row article")
select_S2(doc) == SelectSeq(doc, LAMBDA a: a.inRow)
\* soup.find_all("article")
select_S3(doc) == doc

\* Faulty variant: the .views-row strategy is never tried.
select_articles_no_S2(doc) ==
    IF select_S1(doc) # << >> THEN select_S1(doc) ELSE select_S3(doc)

select_articles(doc) ==
    IF select_S1(doc) # << >> THEN select_S1(doc)
    ELSE IF select_S2(doc) # << >> THEN select_S2(doc)
    ELSE select_S3(doc)

\* a.select_one("h3 a"): the first anchor under an h3, if any
select_one_h3a(a) ==
    LET h == SelectSeq(a.anchors, LAMBDA t: t.inH3)
    IN IF h = << >> THEN None ELSE Some(Head(h))

\* a.select_one("a"): the first anchor, if any
select_one_a(a) ==
    IF a.anchors = << >> THEN None ELSE Some(Head(a.anchors))

\* Faulty variant: the heading anchor is not preferred.
a_tag_any(a) == select_one_a(a)

\* a.select_one("h3 a") or a.select_one("a")
a_tag_of(a) ==
    IF select_one_h3a(a) # None THEN select_one_h3a(a) ELSE select_one_a(a)

\* title_span.get_text(strip=True) if title_span else a_tag.get_text(strip=True)
title_of(t) ==
    IF t.span # None THEN get_text(<< >>, t.span[1]) ELSE get_text(<< >>, t.own)

\* .search-listing--summary, else .teaser, else the first p, else ""
summary_of(a) ==
    LET summary_div == IF a.listingSummary # None THEN a.listingSummary
                       ELSE IF a.teaser # None THEN a.teaser
                       ELSE a.p
    IN IF summary_div # None THEN get_text(<<SP>>, summary_div[1]) ELSE << >>

\* A record of results: title is a string, link a resolved URL; summary and
\* pubdate_raw may be None for build_rss and are kept as optional strings.
Record(title, link, summary, raw) ==
    [title |-> title, link |-> link, summary |-> summary, pubdate_raw |-> raw]

\* Faulty variant: the datetime attribute is never read.
pubdate_of_text_only(a) ==
    IF a.time # None THEN Some(get_text(<< >>, a.time[1].text))
    ELSE IF a.dateMeta # None THEN Some(get_text(<<SP>>, a.dateMeta[1]))
    ELSE None

\* the time element's datetime attribute if truthy, else the time element's
\* text, else (no time element) the first byline-like element's text, else None
pubdate_of(a) ==
    IF a.time # None /\ a.time[1].datetime # None /\ a.time[1].datetime[1] # << >>
    THEN Some(a.time[1].datetime[1])
    ELSE IF a.time # None THEN Some(get_text(<< >>, a.time[1].text))
    ELSE IF a.dateMeta # None THEN Some(get_text(<<SP>>, a.dateMeta[1]))
    ELSE None

\* One pass of the for loop's body: no record on "continue" or on an exception
\* (the only call of the body that can raise is urljoin), else one record.
extract_record(a) ==
    LET a_tag == a_tag_of(a)
    IN IF a_tag = None THEN << >>
       ELSE LET t == a_tag[1]
                title == title_of(t)
            IN IF t.href = None \/ t.href[1].kind = "empty" THEN << >>
               ELSE IF urljoin_raises(t.href[1]) THEN << >>
               ELSE << Record(title, urljoin(BASE_URL, t.href[1]),
                              Some(summary_of(a)), pubdate_of(a)) >>

\* whether the body raises for this candidate
body_raises(a) ==
    LET a_tag == a_tag_of(a)
    IN /\ a_tag # None
       /\ a_tag[1].href # None
       /\ a_tag[1].href[1].kind # "empty"
       /\ urljoin_raises(a_tag[1].href[1])

\* Faulty variant: an exception ends the loop instead of skipping the candidate.
RECURSIVE extract_all_abort(_)
extract_all_abort(arts) ==
    IF arts = << >> THEN << >>
    ELSE IF body_raises(Head(arts)) THEN << >>
    ELSE extract_record(Head(arts)) \o extract_all_abort(Tail(arts))

\* for a in articles: try: ... except Exception: continue
RECURSIVE extract_all(_)
extract_all(arts) ==
    IF arts = << >> THEN << >>
    ELSE extract_record(Head(arts)) \o extract_all(Tail(arts))

\* Faulty variant: the loop never breaks at the limit.
RECURSIVE dedup_loop_nobreak(_, _, _, _)
dedup_loop_nobreak(res, seen, dedup, max) ==
    IF res = << >> THEN dedup
    ELSE LET it == Head(res)
         IN IF it.link \in seen THEN dedup_loop_nobreak(Tail(res), seen, dedup, max)
            ELSE dedup_loop_nobreak(Tail(res), seen \cup {it.link}, Append(dedup, it), max)

\* for it in results: ... (the loop's state: rest of results, seen, dedup)
RECURSIVE dedup_loop(_, _, _, _)
dedup_loop(res, seen, dedup, max) ==
    IF res = << >> THEN dedup
    ELSE LET it == Head(res)
             kept == Append(dedup, it)
         IN IF it.link \in seen THEN dedup_loop(Tail(res), seen, dedup, max)
            ELSE IF Len(kept) >= max THEN kept
            ELSE dedup_loop(Tail(res), seen \cup {it.link}, kept, max)

dedup_limit(res, max) == dedup_loop(res, {}, << >>, max)

parse_articles(doc) == dedup_limit(extract_all(select_articles(doc)), MAX_ITEMS)

---------------------------------------------------------------------------
(* normalize_pubdate *)

\* A datetime: tz is None for a naive value, else Some(offset in minutes).
DateTime(Y, m, d, H, M, S, tz) ==
    [Y |-> Y, m |-> m, d |-> d, H |-> H, M |-> M, S |-> S, tz |-> tz]

IsLeap(Y) == (Y % 4 = 0 /\ Y % 100 # 0) \/ Y % 400 = 0

DaysInMonth(Y, m) ==
    IF m = 2 THEN (IF IsLeap(Y) THEN 29 ELSE 28)
    ELSE IF m \in {4, 6, 9, 11} THEN 30 ELSE 31

\* 0 = Sunday .. 6 = Saturday
Weekday(Y, m, d) ==
    LET t == <<0, 3, 2, 5, 0, 3, 5, 1, 4, 6, 2, 4>>
        y == IF m < 3 THEN Y - 1 ELSE Y
    IN (y + (y \div 4) - (y \div 100) + (y \div 400) + t[m] + d) % 7

\* datetime.now(timezone.utc) when the clock shows t
ClockBase == DateTime(2026, 11, 5, 12, 0, 0, Some(0))
utcnow(t) == [ClockBase EXCEPT !.S = t]

\* the formats of the two for loops, in the order the loops try them
ISO_FORMATS ==
    << <<"%Y", "-", "%m", "-", "%d", "T", "%H", ":", "%M", ":", "%S", "%z">>,
       <<"%Y", "-", "%m", "-", "%d", "T", "%H", ":", "%M", ":", "%S", ".", "%f", "%z">>,
       <<"%Y", "-", "%m", "-", "%d", "T", "%H", ":", "%M", ":", "%S">>,
       <<"%Y", "-", "%m", "-", "%d">> >>

HUMAN_FORMATS ==
    << <<"%b", " ", "%d", ",", " ", "%Y">>,
       <<"%B", " ", "%d", ",", " ", "%Y">>,
       <<"%d", " ", "%b", " ", "%Y">>,
       <<"%d", " ", "%B", " ", "%Y">>,
       <<"%Y", "/", "%m", "/", "%d">> >>

\* whether one token matches one directive (the regular expression strptime
\* builds for it); May is its own abbreviation
directive_matches(dir, tok) ==
    CASE dir = "%Y" -> tok.k = "num" /\ tok.w = 4
      [] dir = "%m" -> tok.k = "num" /\ tok.w \in {1, 2} /\ tok.v \in 1..12
      [] dir = "%d" -> tok.k = "num" /\ tok.w \in {1, 2} /\ tok.v \in 1..31
      [] dir = "%H" -> tok.k = "num" /\ tok.w \in {1, 2} /\ tok.v \in 0..23
      [] dir = "%M" -> tok.k = "num" /\ tok.w \in {1, 2} /\ tok.v \in 0..59
      [] dir = "%S" -> tok.k = "num" /\ tok.w \in {1, 2} /\ tok.v \in 0..61
      [] dir = "%f" -> tok.k = "num" /\ tok.w \in 1..6
      [] dir = "%z" -> tok.k = "tz"
      [] dir = "%b" -> tok.k = "mon" /\ tok.w = 0
      [] dir = "%B" -> tok.k = "mon" /\ (tok.w = 1 \/ tok.v = 5)
      [] OTHER -> tok.k = dir

\* the field of the datetime a directive sets
directive_sets(dir, tok, dt) ==
    CASE dir = "%Y" -> [dt EXCEPT !.Y = tok.v]
      [] dir \in {"%m", "%b", "%B"} -> [dt EXCEPT !.m = tok.v]
      [] dir = "%d" -> [dt EXCEPT !.d = tok.v]
      [] dir = "%H" -> [dt EXCEPT !.H = tok.v]
      [] dir = "%M" -> [dt EXCEPT !.M = tok.v]
      [] dir = "%S" -> [dt EXCEPT !.S = tok.v]
      [] dir = "%z" -> [dt EXCEPT !.tz = Some(tok.v)]
      [] OTHER -> dt

\* the match of the whole string against the whole format: None, or the
\* fields found.  White space in a format matches one or more spaces.
RECURSIVE match_format(_, _, _)
match_format(fmt, s, dt) ==
    IF fmt = << >> THEN (IF s = << >> THEN Some(dt) ELSE None)
    ELSE IF s = << >> THEN None
    ELSE IF Head(fmt) = " "
         THEN IF Head(s) # SP THEN None
              ELSE match_format(Tail(fmt), lstrip(s), dt)
    ELSE IF directive_matches(Head(fmt), Head(s))
         THEN match_format(Tail(fmt), Tail(s), directive_sets(Head(fmt), Head(s), dt))
    ELSE None

\* datetime.strptime(s, fmt): None when it raises ValueError (no match,
\* unconverted data, or field values that are no date)
strptime(s, fmt) ==
    LET found == match_format(fmt, s, DateTime(1900, 1, 1, 0, 0, 0, None))
    IN IF found = None THEN None
       ELSE LET dt == found[1]
            IN IF dt.Y >= 1 /\ dt.d <= DaysInMonth(dt.Y, dt.m) /\ dt.S <= 59
               THEN Some(dt) ELSE None

\* dt.strftime("%a, %d %b %Y %H:%M:%S %z"); %z is empty for a naive value
strftime(dt) ==
    << Tok("wd", Weekday(dt.Y, dt.m, dt.d), 0), Lit(","), SP, Num(dt.d, 2), SP,
       Tok("mon", dt.m, 0), SP, Num(dt.Y, 4), SP,
       Num(dt.H, 2), Lit(":"), Num(dt.M, 2), Lit(":"), Num(dt.S, 2), SP >>
    \o (IF dt.tz = None THEN << >> ELSE << Tok("tz", dt.tz[1], 2) >>)

\* position of the first format of fmts that parses s, 0 if none does
RECURSIVE first_format(_, _, _)
first_format(fmts, s, i) ==
    IF i > Len(fmts) THEN 0
    ELSE IF strptime(s, fmts[i]) # None THEN i
    ELSE first_format(fmts, s, i + 1)

\* dt.replace(tzinfo=timezone.utc)
replace_utc(dt) == [dt EXCEPT !.tz = Some(0)]

\* the outcome of a call: raised, or the returned text; fmt records which
\* format produced it (1..4 ISO, 5..9 human-readable, 0 the clock)
Returned(text, fmt) == [raised |-> FALSE, text |-> text, fmt |-> fmt]
Raised == [raised |-> TRUE, text |-> << >>, fmt |-> 0]

\* Faulty variant: the ValueError of the no-match case is not caught.
normalize_pubdate_uncaught(raw, t) ==
    IF raw = None \/ raw[1] = << >> THEN Returned(strftime(utcnow(t)), 0)
    ELSE LET s == strip(raw[1])
             i == first_format(ISO_FORMATS, s, 1)
             j == first_format(HUMAN_FORMATS, s, 1)
         IN IF i # 0
            THEN LET dt == strptime(s, ISO_FORMATS[i])[1]
                 IN Returned(strftime(IF dt.tz = None THEN replace_utc(dt) ELSE dt), i)
            ELSE IF j # 0
            THEN Returned(strftime(replace_utc(strptime(s, HUMAN_FORMATS[j])[1])),
                          Len(ISO_FORMATS) + j)
            ELSE Raised

normalize_pubdate(raw, t) ==
    IF raw = None \/ raw[1] = << >> THEN Returned(strftime(utcnow(t)), 0)
    ELSE LET s == strip(raw[1])
             i == first_format(ISO_FORMATS, s, 1)
             j == first_format(HUMAN_FORMATS, s, 1)
         IN IF i # 0
            THEN LET dt == strptime(s, ISO_FORMATS[i])[1]
                 IN Returned(strftime(IF dt.tz = None THEN replace_utc(dt) ELSE dt), i)
            ELSE IF j # 0
            THEN Returned(strftime(replace_utc(strptime(s, HUMAN_FORMATS[j])[1])),
                          Len(ISO_FORMATS) + j)
            ELSE Returned(strftime(utcnow(t)), 0)

---------------------------------------------------------------------------
(* build_rss *)

\* ElementTree's escaping of element text on serialisation
escape_cdata(text) ==
    [i \in 1..Len(text) |->
        IF text[i].k = "&" THEN Lit("&amp;")
        ELSE IF text[i].k = "<" THEN Lit("&lt;")
        ELSE text[i]]

\* the clock read by the i-th call of normalize_pubdate when the clock
\* ticks once, before call k, while build_rss runs
clock_at(t0, k, i) == IF i < k THEN t0 ELSE t0 + 1

\* the item element built for the i-th record
item_element(it, t) ==
    [title |-> it.title,
     link |-> it.link,
     guid |-> it.link,
     description |-> IF it.summary = None \/ it.summary[1] = << >>
                     THEN << >> ELSE it.summary[1],
     pubDate |-> normalize_pubdate(it.pubdate_raw, t).text]

\* Faulty variant: the items are added in reverse order.
rss_tree_reversed(its, t0, k) ==
    [version |-> "2.0",
     channel |-> [title |-> "CSIS - Analysis (custom RSS)",
                  link |-> START_URL,
                  description |-> "Auto-generated RSS feed for CSIS Analysis pages.",
                  lastBuildDate |-> strftime(utcnow(t0)),
                  ttl |-> "60"],
     item |-> [i \in 1..Len(its) |->
                  item_element(its[Len(its) + 1 - i], clock_at(t0, k, i))]]

\* the tree under the rss element (the channel title's dash is written "-")
rss_tree(its, t0, k) ==
    [version |-> "2.0",
     channel |-> [title |-> "CSIS - Analysis (custom RSS)",
                  link |-> START_URL,
                  description |-> "Auto-generated RSS feed for CSIS Analysis pages.",
                  lastBuildDate |-> strftime(utcnow(t0)),
                  ttl |-> "60"],
     item |-> [i \in 1..Len(its) |-> item_element(its[i], clock_at(t0, k, i))]]

\* ET.tostring(rss, encoding="utf-8")
tostring(tree) ==
    [tree EXCEPT !.item =
        [i \in 1..Len(tree.item) |->
            [tree.item[i] EXCEPT !.title = escape_cdata(@),
                                 !.description = escape_cdata(@),
                                 !.pubDate = escape_cdata(@)]]]

\* Faulty variant: the file is opened for appending.
write_file_append(old, xml_bytes) ==
    IF old = None THEN Some([decl |-> "<?xml version=1.0 encoding=utf-8?>", rss |-> xml_bytes])
    ELSE Some([decl |-> "<?xml version=1.0 encoding=utf-8?>",
               rss |-> [xml_bytes EXCEPT !.item = old[1].rss.item \o @]])

\* open(OUTPUT_FILE, "wb"): the declaration line, then the document
write_file(old, xml_bytes) ==
    Some([decl |-> "<?xml version=1.0 encoding=utf-8?>", rss |-> xml_bytes])

\* the contents of OUTPUT_FILE after build_rss(its)
build_rss(old, its, t0, k) == write_file(old, tostring(rss_tree(its, t0, k)))

---------------------------------------------------------------------------
(* Inputs: pages, candidates, strings *)

Seqs(S, n) == UNION {[1..k -> S] : k \in 0..n}

Anchor(inH3, href, span, own) ==
    [inH3 |-> inH3, href |-> href, span |-> span, own |-> own]

Cand(listing, inRow, anchors, listingSummary, teaser, p, time, dateMeta) ==
    [listing |-> listing, inRow |-> inRow, anchors |-> anchors,
     listingSummary |-> listingSummary, teaser |-> teaser, p |-> p,
     time |-> time, dateMeta |-> dateMeta]

TimeEl(datetime, text) == [datetime |-> datetime, text |-> text]

Title1 == <<Word(1)>>
Title2 == <<Word(2), Amp, Word(3)>>
Padded1 == <<SP, Word(1), SP>>
Blank == <<SP>>

\* a numeral of at least w digits
Numeral(v, w) == Num(v, IF v < 10 THEN w ELSE 2)

IsoDate(Y, m, d, w) ==
    <<Num(Y, 4), Lit("-"), Numeral(m, w), Lit("-"), Numeral(d, w)>>
IsoTime(H, M, S) == <<Lit("T"), Num(H, 2), Lit(":"), Num(M, 2), Lit(":"), Num(S, 2)>>
Frac == <<Lit("."), Num(123, 3)>>
TzZ == <<Tok("tz", 0, 0)>>
TzPlus == <<Tok("tz", 330, 1)>>
MonthName(m, full) == Tok("mon", m, IF full /\ m # 5 THEN 1 ELSE 0)
MonthDayYear(Y, m, d, full) ==
    <<MonthName(m, full), SP, Numeral(d, 1), Lit(","), SP, Num(Y, 4)>>
DayMonthYear(Y, m, d, full) ==
    <<Numeral(d, 1), SP, MonthName(m, full), SP, Num(Y, 4)>>
SlashDate(Y, m, d) == <<Num(Y, 4), Lit("/"), Num(m, 2), Lit("/"), Num(d, 2)>>

\* year, month, day: two dates, and two that no calendar has
Days == { <<2024, 3, 5>>, <<2024, 5, 30>>, <<2024, 2, 30>>, <<2023, 2, 29>> }

DateStrings ==
    UNION { { IsoDate(D[1], D[2], D[3], 2),
              IsoDate(D[1], D[2], D[3], 1),
              IsoDate(D[1], D[2], D[3], 2) \o IsoTime(10, 0, 7),
              IsoDate(D[1], D[2], D[3], 2) \o IsoTime(10, 0, 60),
              IsoDate(D[1], D[2], D[3], 2) \o IsoTime(10, 0, 7) \o TzZ,
              IsoDate(D[1], D[2], D[3], 2) \o IsoTime(23, 59, 7) \o TzPlus,
              IsoDate(D[1], D[2], D[3], 2) \o IsoTime(10, 0, 7) \o Frac \o TzPlus,
              IsoDate(D[1], D[2], D[3], 2) \o IsoTime(10, 0, 7) \o Frac,
              MonthDayYear(D[1], D[2], D[3], FALSE),
              MonthDayYear(D[1], D[2], D[3], TRUE),
              <<MonthName(D[2], TRUE), SP, SP, Num(D[3], 2), Lit(","), SP, Num(D[1], 4)>>,
              <<MonthName(D[2], FALSE), SP, Num(D[3], 2), Lit(","), Num(D[1], 4)>>,
              DayMonthYear(D[1], D[2], D[3], FALSE),
              DayMonthYear(D[1], D[2], D[3], TRUE),
              SlashDate(D[1], D[2], D[3]) } : D \in Days }

Wrapped(x) ==
    { x, <<SP>> \o x, x \o <<SP, SP>>, x \o <<SP, Word(1)>>, <<Word(2), SP>> \o x }

\* the arguments normalize_pubdate is called with
RawDates ==
    {None, Some(<< >>), Some(<<SP>>), Some(<<Word(1), SP, Word(2)>>)}
    \cup { Some(w) : w \in UNION { Wrapped(x) : x \in DateStrings } }

Link(n) == Href("path", "", n)
AbsLink(n) == Href("url", BASE_URL, n)
OffSite(n) == Href("url", "https://example.org", n)

PlainAnchor(href) == Anchor(FALSE, href, None, <<Title1>>)

\* the anchors of a candidate, in document order
AnchorChoices ==
    { << >>,
      <<PlainAnchor(Some(Link(1)))>>,
      <<PlainAnchor(Some(AbsLink(1)))>>,
      <<PlainAnchor(Some(OffSite(1)))>>,
      <<PlainAnchor(None)>>,
      <<PlainAnchor(Some(Href("empty", "", 0)))>>,
      <<PlainAnchor(Some(Href("bad", "", 0)))>>,
      <<PlainAnchor(Some(Link(1))), Anchor(TRUE, Some(Link(2)), None, <<Title2>>)>>,
      <<PlainAnchor(Some(Link(1))), Anchor(TRUE, None, None, <<Title2>>)>>,
      <<PlainAnchor(None), PlainAnchor(Some(Link(2)))>>,
      <<Anchor(TRUE, Some(Link(3)), Some(<<Padded1>>), <<Title2>>)>>,
      <<Anchor(TRUE, Some(Link(3)), Some(<<Blank>>), <<Title2>>)>>,
      <<Anchor(FALSE, Some(Link(3)), None, << >>)>>,
      <<Anchor(FALSE, Some(Link(3)), None, <<Blank, Title2, Padded1>>)>> }

TextChoices == { None, Some(<<Padded1>>), Some(<<Title1, Blank, Title2>>) }

SummaryChoices ==
    { <<None, None, None>>,
      <<Some(<<Title1>>), Some(<<Title2>>), Some(<<Padded1>>)>>,
      <<None, Some(<<Title2>>), Some(<<Padded1>>)>>,
      <<None, None, Some(<<Padded1, Title2>>)>>,
      <<None, Some(<<Blank>>), Some(<<Title1>>)>> }

March5 == IsoDate(2024, 3, 5, 2)
March5Text == MonthDayYear(2024, 3, 5, TRUE)

TimeChoices ==
    { None,
      Some(TimeEl(Some(March5), <<March5Text>>)),
      Some(TimeEl(Some(<< >>), <<March5Text>>)),
      Some(TimeEl(None, <<<<SP>> \o March5Text>>)),
      Some(TimeEl(None, << >>)),
      Some(TimeEl(Some(<<Word(1)>>), << >>)) }

MetaChoices == { None, Some(<<March5Text>>), Some(<<Title1, <<SP>> \o March5>>) }

\* candidates that differ in everything the loop body reads
FullCands ==
    { Cand(FALSE, FALSE, an, su[1], su[2], su[3], ti, me) :
        an \in AnchorChoices, su \in SummaryChoices,
        ti \in TimeChoices, me \in MetaChoices }

Simple(listing, inRow, anchors) ==
    Cand(listing, inRow, anchors, None, None, None, None, None)

\* candidates that differ in what the selectors and the dedup loop read
CoreCands ==
    { Simple(TRUE, FALSE, <<PlainAnchor(Some(Link(1)))>>),
      Simple(FALSE, TRUE, <<PlainAnchor(Some(Link(2)))>>),
      Simple(FALSE, FALSE, <<Anchor(TRUE, Some(AbsLink(1)), None, <<Title2>>)>>),
      Simple(TRUE, TRUE, <<PlainAnchor(Some(Link(3)))>>),
      Simple(FALSE, FALSE, <<PlainAnchor(Some(Href("bad", "", 0)))>>),
      Simple(FALSE, FALSE, <<PlainAnchor(None)>>) }

\* a page of n candidates whose links repeat with period m
LongPage(n, m) ==
    [i \in 1..n |-> Simple(TRUE, FALSE, <<PlainAnchor(Some(Link(i % m)))>>)]

LongPages ==
    { LongPage(n, m) : n \in (MAX_ITEMS - 1)..(MAX_ITEMS + 2),
                       m \in {MAX_ITEMS - 1, MAX_ITEMS + 1, MAX_ITEMS + 2} }

\* the pages parse_articles is called with
ParsePages ==
    Seqs(CoreCands, MaxCands) \cup { <<c>> : c \in FullCands } \cup LongPages

\* the record lists the dedup loop and build_rss are called with
SampleRecords ==
    { Record(t, urljoin(BASE_URL, Link(n)), Some(<< >>), None) :
        t \in {Title1, Title2}, n \in 1..3 }

BuildRecords ==
    { Record(Title2, urljoin(BASE_URL, Link(1)), su, ra) :
        su \in {None, Some(<< >>), Some(Title2)},
        ra \in {None, Some(March5), Some(<<Word(1)>>)} }
    \cup { Record(Title1, urljoin(BASE_URL, Link(2)), Some(Title1), Some(March5Text)) }

\* the pages the site serves to main
DatedCand(n, time, meta) ==
    Cand(TRUE, FALSE, <<PlainAnchor(Some(Link(n)))>>, None, None,
         Some(<<Title2>>), time, meta)

MainPages ==
    { << >>,
      <<Simple(FALSE, TRUE, << >>), Simple(FALSE, FALSE, <<PlainAnchor(Some(Href("bad", "", 0)))>>)>>,
      <<DatedCand(1, Some(TimeEl(Some(March5), << >>)), None),
        Simple(FALSE, FALSE, <<PlainAnchor(Some(Link(2)))>>),
        DatedCand(1, None, None),
        DatedCand(3, None, Some(<<Title1>>))>>,
      <<DatedCand(MAX_ITEMS + 4, None, Some(<<March5Text>>)),
        Simple(TRUE, FALSE, <<PlainAnchor(None)>>),
        DatedCand(MAX_ITEMS + 5, None, None)>>,
      LongPage(MAX_ITEMS + 2, MAX_ITEMS + 2) }

---------------------------------------------------------------------------
(* main: one run after another, each from fetch to exit *)

NoFile == None

Init ==
    /\ pc = "fetch"
    /\ now = 0
    /\ page \in MainPages
    /\ html = None
    /\ articles = << >>
    /\ results = << >>
    /\ items = << >>
    /\ max_count = MAX_ITEMS
    /\ pubdate_raw = None
    /\ pubdate = Returned(<< >>, 0)
    /\ file = NoFile
    /\ fileBefore = NoFile
    /\ built = FALSE
    /\ status = "running"
    /\ runs = 1

\* fetch_html(START_URL) returns the page
FetchOk ==
    /\ pc = "fetch"
    /\ html' = Some(page)
    /\ pc' = "parse"
    /\ UNCHANGED <<now, page, articles, results, items, max_count, pubdate_raw,
                   pubdate, file, fileBefore, built, status, runs>>

\* fetch_html raises (transport error, raise_for_status): sys.exit(1)
FetchFail ==
    /\ pc = "fetch"
    /\ status' = "exit1"
    /\ pc' = "done"
    /\ UNCHANGED <<now, page, html, articles, results, items, max_count,
                   pubdate_raw, pubdate, file, fileBefore, built, runs>>

\* items = parse_articles(html)
Parse ==
    /\ pc = "parse"
    /\ articles' = select_articles(html[1])
    /\ results' = extract_all(select_articles(html[1]))
    /\ items' = parse_articles(html[1])
    /\ pc' = "check"
    /\ UNCHANGED <<now, page, html, max_count, pubdate_raw, pubdate, file,
                   fileBefore, built, status, runs>>

\* Faulty variant: the empty check is missing and build_rss runs on no items.
ExitNoItems_missing ==
    /\ pc = "check"
    /\ items = << >>
    /\ file' = build_rss(file, items, now, 1)
    /\ built' = TRUE
    /\ status' = "exit0"
    /\ pc' = "done"
    /\ UNCHANGED <<now, page, html, articles, results, items, max_count,
                   pubdate_raw, pubdate, fileBefore, runs>>

\* if not items: sys.exit(1)
ExitNoItems ==
    /\ pc = "check"
    /\ items = << >>
    /\ status' = "exit1"
    /\ pc' = "done"
    /\ UNCHANGED <<now, page, html, articles, results, items, max_count,
                   pubdate_raw, pubdate, file, fileBefore, built, runs>>

\* build_rss(items), then the normal end of main; the clock may tick once
\* during the call (before the k-th record), or not at all
BuildRss ==
    /\ pc = "check"
    /\ items # << >>
    /\ \E k \in 1..(Len(items) + 1) :
          /\ (k <= Len(items)) => now < MaxClock
          /\ file' = build_rss(file, items, now, k)
          /\ now' = IF k <= Len(items) THEN now + 1 ELSE now
    /\ built' = TRUE
    /\ status' = "exit0"
    /\ pc' = "done"
    /\ UNCHANGED <<page, html, articles, results, items, max_count,
                   pubdate_raw, pubdate, fileBefore, runs>>

\* the next scheduled run: the site may serve another page by then
NextRun ==
    /\ pc = "done"
    /\ runs < MaxRuns
    /\ page' \in MainPages
    /\ now' \in now..MaxClock
    /\ runs' = runs + 1
    /\ fileBefore' = file
    /\ html' = None
    /\ articles' = << >>
    /\ results' = << >>
    /\ items' = << >>
    /\ built' = FALSE
    /\ status' = "running"
    /\ pc' = "fetch"
    /\ UNCHANGED <<max_count, pubdate_raw, pubdate, file>>

Next == FetchOk \/ FetchFail \/ Parse \/ ExitNoItems \/ BuildRss \/ NextRun

Spec == Init /\ [][Next]_vars

---------------------------------------------------------------------------
(* parse_articles alone, on every page of ParsePages *)

InitParse ==
    /\ pc = "call"
    /\ now = 0
    /\ page \in ParsePages
    /\ html = None
    /\ articles = << >>
    /\ results = << >>
    /\ items = << >>
    /\ max_count = MAX_ITEMS
    /\ pubdate_raw = None
    /\ pubdate = Returned(<< >>, 0)
    /\ file = NoFile
    /\ fileBefore = NoFile
    /\ built = FALSE
    /\ status = "running"
    /\ runs = 0

ParseCall ==
    /\ pc = "call"
    /\ articles' = select_articles(page)
    /\ results' = extract_all(select_articles(page))
    /\ items' = parse_articles(page)
    /\ pc' = "return"
    /\ UNCHANGED <<now, page, html, max_count, pubdate_raw, pubdate, file,
                   fileBefore, built, status, runs>>

SpecParse == InitParse /\ [][ParseCall]_vars

---------------------------------------------------------------------------
(* the dedup loop alone, on every record list and limit *)

InitDedup ==
    /\ pc = "call"
    /\ now = 0
    /\ page = << >>
    /\ html = None
    /\ articles = << >>
    /\ results \in Seqs(SampleRecords, MaxLen)
    /\ items = << >>
    /\ max_count \in 1..MaxCount
    /\ pubdate_raw = None
    /\ pubdate = Returned(<< >>, 0)
    /\ file = NoFile
    /\ fileBefore = NoFile
    /\ built = FALSE
    /\ status = "running"
    /\ runs = 0

DedupCall ==
    /\ pc = "call"
    /\ items' = dedup_limit(results, max_count)
    /\ pc' = "return"
    /\ UNCHANGED <<now, page, html, articles, results, max_count, pubdate_raw,
                   pubdate, file, fileBefore, built, status, runs>>

SpecDedup == InitDedup /\ [][DedupCall]_vars

---------------------------------------------------------------------------
(* normalize_pubdate alone, on every argument of RawDates *)

InitDate ==
    /\ pc = "call"
    /\ now \in 0..MaxClock
    /\ page = << >>
    /\ html = None
    /\ articles = << >>
    /\ results = << >>
    /\ items = << >>
    /\ max_count = MAX_ITEMS
    /\ pubdate_raw \in RawDates
    /\ pubdate = Returned(<< >>, 0)
    /\ file = NoFile
    /\ fileBefore = NoFile
    /\ built = FALSE
    /\ status = "running"
    /\ runs = 0

NormalizeCall ==
    /\ pc = "call"
    /\ pubdate' = normalize_pubdate(pubdate_raw, now)
    /\ pc' = "return"
    /\ UNCHANGED <<now, page, html, articles, results, items, max_count,
                   pubdate_raw, file, fileBefore, built, status, runs>>

SpecDate == InitDate /\ [][NormalizeCall]_vars

---------------------------------------------------------------------------
(* build_rss alone, on every record list of at most MaxBuild records *)

InitBuild ==
    /\ pc = "call"
    /\ now = 0
    /\ page = << >>
    /\ html = None
    /\ articles = << >>
    /\ results = << >>
    /\ items \in Seqs(BuildRecords, MaxBuild)
    /\ max_count = MAX_ITEMS
    /\ pubdate_raw = None
    /\ pubdate = Returned(<< >>, 0)
    /\ file = NoFile
    /\ fileBefore = NoFile
    /\ built = FALSE
    /\ status = "running"
    /\ runs = 0

BuildCall ==
    /\ pc = "call"
    /\ \E k \in 1..(Len(items) + 1) :
          /\ (k <= Len(items)) => now < MaxClock
          /\ file' = build_rss(file, items, now, k)
          /\ now' = IF k <= Len(items) THEN now + 1 ELSE now
    /\ built' = TRUE
    /\ pc' = "return"
    /\ UNCHANGED <<page, html, articles, results, items, max_count,
                   pubdate_raw, pubdate, fileBefore, status, runs>>

SpecBuild == InitBuild /\ [][BuildCall]_vars

---------------------------------------------------------------------------
(* Properties *)

Min(a, b) == IF a < b THEN a ELSE b

Links(recs) == { recs[i].link : i \in 1..Len(recs) }

\* positions of res that hold the first occurrence of their link
FirstOccurrences(res) ==
    { i \in 1..Len(res) : \A j \in 1..(i - 1) : res[j].link # res[i].link }

\* out is a subsequence of res taken at strictly increasing positions of P
IsSubsequenceAt(out, res, P) ==
    \E f \in [1..Len(out) -> P] :
        /\ \A a, b \in 1..Len(out) : a < b => f[a] < f[b]
        /\ \A a \in 1..Len(out) : out[a] = res[f[a]]

\* C1: the dedup loop returns records with pairwise distinct links, an
\* order-preserving subsequence of its input made of first occurrences only,
\* of length min(number of distinct links, max_count).
C1_DedupLimit ==
    pc = "return" =>
        /\ \A a, b \in 1..Len(items) : a # b => items[a].link # items[b].link
        /\ IsSubsequenceAt(items, results, FirstOccurrences(results))
        /\ Len(items) = Min(Cardinality(Links(results)), max_count)

C1_Witness ==
    /\ pc = "return"
    /\ Cardinality(Links(results)) > max_count
    /\ Cardinality(Links(results)) < Len(results)
    /\ results[1].link = results[2].link
    /\ results[1].title # results[2].title
    /\ Len(items) = max_count
    /\ max_count > 1

\* C2: the candidates are the S1 matches if there are any, else the S2
\* matches if there are any, else the S3 matches; never a mixture.
C2_SelectorFallback ==
    pc = "return" =>
        /\ select_S1(page) # << >> => articles = select_S1(page)
        /\ (select_S1(page) = << >> /\ select_S2(page) # << >>)
              => articles = select_S2(page)
        /\ (select_S1(page) = << >> /\ select_S2(page) = << >>)
              => articles = select_S3(page)

C2_Witness ==
    /\ pc = "return"
    /\ select_S1(page) = << >>
    /\ select_S2(page) # << >>
    /\ Len(select_S2(page)) < Len(select_S3(page))
    /\ articles = select_S2(page)

\* no anchor of the candidate carries an href attribute
NoAnchorWithHref(c) == \A i \in 1..Len(c.anchors) : c.anchors[i].href = None

\* C3: a candidate without an anchor with an href, or whose processing
\* raises, adds no record and does not end the loop: the extracted list is
\* the records of the other candidates, in candidate order.
C3_SkipIsLocal ==
    pc = "return" =>
        LET kept == SelectSeq(articles, LAMBDA c : extract_record(c) # << >>)
        IN /\ \A i \in 1..Len(articles) :
                (NoAnchorWithHref(articles[i]) \/ body_raises(articles[i]))
                    => extract_record(articles[i]) = << >>
           /\ Len(results) = Len(kept)
           /\ \A i \in 1..Len(kept) : results[i] = extract_record(kept[i])[1]

C3_Witness ==
    /\ pc = "return"
    /\ Len(articles) = 3
    /\ body_raises(articles[1])
    /\ NoAnchorWithHref(articles[2])
    /\ Len(results) = 1
    /\ results[1] = extract_record(articles[3])[1]

\* the shape "%a, %d %b %Y %H:%M:%S %z" with every field filled
IsCanonical(text) ==
    /\ Len(text) = 16
    /\ [i \in 1..16 |-> text[i].k] =
         <<"wd", ",", " ", "num", " ", "mon", " ", "num", " ",
           "num", ":", "num", ":", "num", " ", "tz">>
    /\ text[1].v \in 0..6
    /\ text[4].w = 2 /\ text[8].w = 4
    /\ text[10].w = 2 /\ text[12].w = 2 /\ text[14].w = 2

ALL_FORMATS == ISO_FORMATS \o HUMAN_FORMATS

\* the formats that parse the whole string
Parsing(s) == { i \in 1..Len(ALL_FORMATS) : strptime(s, ALL_FORMATS[i]) # None }

Least(S) == CHOOSE i \in S : \A j \in S : i <= j

\* the instant a parsed value stands for: UTC unless it carries an offset
AsInstant(dt) == IF dt.tz = None THEN [dt EXCEPT !.tz = Some(0)] ELSE dt

C5_FatalCases ==
    /\ pc # "done" => status = "running"
    /\ pc = "done" =>
        /\ status \in {"exit0", "exit1"}
        /\ status = "exit1" <=> (html = None \/ items = << >>)
        /\ status = "exit1" => (~built /\ file = fileBefore)
        /\ status = "exit0" =>
              /\ built
              /\ file # NoFile
              /\ Len(file[1].rss.item) = Len(items)

C5_Witness ==
    /\ pc = "done"
    /\ status = "exit1"
    /\ html # None
    /\ articles # << >>
    /\ fileBefore # NoFile
    /\ file = fileBefore

\* what a reader of the document gets back for an escaped text
unescape(text) ==
    [i \in 1..Len(text) |->
        IF text[i].k = "&amp;" THEN Lit("&")
        ELSE IF text[i].k = "&lt;" THEN Lit("<")
        ELSE text[i]]

\* entry e of the document carries record it, its date normalised at some
\* clock value of 0..t
Carries(e, it, t) ==
    /\ unescape(e.title) = it.title
    /\ e.link = it.link
    /\ e.guid = it.link
    /\ unescape(e.description) = (IF it.summary = None THEN << >> ELSE it.summary[1])
    /\ \E u \in 0..t : unescape(e.pubDate) = normalize_pubdate(it.pubdate_raw, u).text

\* C6: for N records (N = 0 included) build_rss writes a document with N
\* item entries in input order; entry i carries record i's title, link and
\* summary ("" if none), its link as guid and its normalised date as pubDate.
C6_Assemble ==
    pc = "return" =>
        /\ file # NoFile
        /\ Len(file[1].rss.item) = Len(items)
        /\ \A i \in 1..Len(items) : Carries(file[1].rss.item[i], items[i], now)

C6_Witness ==
    /\ pc = "return"
    /\ Len(items) = 2
    /\ items[1].link # items[2].link
    /\ items[1].summary = None
    /\ items[2].pubdate_raw = Some(March5Text)
    /\ file[1].rss.item[1].title # items[1].title
    /\ Carries(file[1].rss.item[2], items[2], now)

\* C7: after a successful run the file holds the feed of that run's items
\* and nothing else: no entry of an earlier output, at most MAX_ITEMS entries.
C7_FreshOutput ==
    (pc = "done" /\ status = "exit0") =>
        /\ file # NoFile
        /\ Len(file[1].rss.item) = Len(items)
        /\ Len(file[1].rss.item) <= MAX_ITEMS
        /\ \A i \in 1..Len(items) : Carries(file[1].rss.item[i], items[i], now)
        /\ Links(file[1].rss.item) \subseteq Links(extract_all(page))

C7_Witness ==
    /\ pc = "done"
    /\ status = "exit0"
    /\ fileBefore # NoFile
    /\ ~(Links(fileBefore[1].rss.item) \subseteq Links(extract_all(page)))
    /\ Len(results) > MAX_ITEMS
    /\ Len(file[1].rss.item) = MAX_ITEMS

\* C8: every record parse_articles returns has a non-empty title.
C8_TitleNonEmpty ==
    pc = "return" => \A i \in 1..Len(items) : items[i].title # << >>

\* the candidates the loop did not skip
Kept == SelectSeq(articles, LAMBDA c : extract_record(c) # << >>)

\* the chain read by presence alone: the datetime attribute when the time
\* element has one, else the time element's text, else the byline text
ChainByPresence(c) ==
    IF c.time # None /\ c.time[1].datetime # None THEN Some(c.time[1].datetime[1])
    ELSE IF c.time # None THEN Some(get_text(<< >>, c.time[1].text))
    ELSE IF c.dateMeta # None THEN Some(get_text(<<SP>>, c.dateMeta[1]))
    ELSE None

\* C9 as stated: the raw date is the time element's datetime attribute when
\* it has one, else that element's text, else the first byline-like element's
\* text, else absent.
C9_AsStated ==
    pc = "return" =>
        /\ Len(results) = Len(Kept)
        /\ \A i \in 1..Len(Kept) : results[i].pubdate_raw = ChainByPresence(Kept[i])

HasDatetime(c) ==
    c.time # None /\ c.time[1].datetime # None /\ c.time[1].datetime[1] # << >>

\* C9 as amended: the raw date is the time element's datetime attribute when
\* that attribute is present and not empty; else, when there is a time
\* element, its stripped text (empty or not); else the stripped text of the
\* first byline-like element; and it is absent exactly when the candidate
\* has neither a time element nor a byline-like element.
C9_RawDateChain ==
    pc = "return" =>
        /\ Len(results) = Len(Kept)
        /\ \A i \in 1..Len(Kept) :
             LET c == Kept[i]
                 raw == results[i].pubdate_raw
             IN /\ HasDatetime(c) => raw = c.time[1].datetime
                /\ (c.time # None /\ ~HasDatetime(c))
                      => raw = Some(get_text(<< >>, c.time[1].text))
                /\ (c.time = None /\ c.dateMeta # None)
                      => raw = Some(get_text(<<SP>>, c.dateMeta[1]))
                /\ raw = None <=> (c.time = None /\ c.dateMeta = None)

C9_Witness ==
    /\ pc = "return"
    /\ Len(results) = 1
    /\ Kept[1].time # None
    /\ Kept[1].time[1].datetime = Some(<< >>)
    /\ Kept[1].dateMeta # None
    /\ results[1].pubdate_raw = Some(March5Text)

\* the anchor the claim chooses: the first one under a heading, else the first
ChosenAnchor(c) ==
    LET H == { i \in 1..Len(c.anchors) : c.anchors[i].inH3 }
    IN IF H # {} THEN Some(c.anchors[Least(H)])
       ELSE IF c.anchors # << >> THEN Some(c.anchors[1])
       ELSE None

SkippedAsStated(c) == ChosenAnchor(c) = None \/ ChosenAnchor(c)[1].href = None

SkippedAmended(c) ==
    \/ ChosenAnchor(c) = None
    \/ ChosenAnchor(c)[1].href = None
    \/ ChosenAnchor(c)[1].href[1].kind = "empty"
    \/ urljoin_raises(ChosenAnchor(c)[1].href[1])

\* C10 as stated: a candidate is skipped iff it has no anchor or its chosen
\* anchor has no href attribute; every other candidate gives exactly one
\* record, whose link is the chosen anchor's href resolved against BASE_URL.
C10_AsStated ==
    pc = "return" =>
        LET emitting == SelectSeq(articles, LAMBDA c : ~SkippedAsStated(c))
        IN /\ Len(results) = Len(emitting)
           /\ \A i \in 1..Len(emitting) :
                results[i].link = urljoin(BASE_URL, ChosenAnchor(emitting[i])[1].href[1])

\* C10 as amended: a candidate is skipped iff it has no anchor, or its chosen
\* anchor's href is missing or empty, or resolving the href raises; every
\* other candidate gives exactly one record, whose link is the chosen
\* anchor's href resolved against BASE_URL.
C10_AnchorAndLink ==
    pc = "return" =>
        LET emitting == SelectSeq(articles, LAMBDA c : ~SkippedAmended(c))
        IN /\ Len(results) = Len(emitting)
           /\ \A i \in 1..Len(emitting) :
                results[i].link = urljoin(BASE_URL, ChosenAnchor(emitting[i])[1].href[1])

C10_Witness ==
    /\ pc = "return"
    /\ Len(articles) = 1
    /\ Len(articles[1].anchors) = 2
    /\ ~articles[1].anchors[1].inH3
    /\ articles[1].anchors[1].href # None
    /\ Len(results) = 1
    /\ results[1].link = urljoin(BASE_URL, articles[1].anchors[2].href[1])
    /\ results[1].link # urljoin(BASE_URL, articles[1].anchors[1].href[1])

===========================================================================
